---------------------------- MODULE Spec2Model ----------------------------
(***************************************************************************)
(* Model of src/src/axiomatic_self_healer.rs: the Adaptive Axiomatic       *)
(* Regularizer (weights, detection, penalty, violation history) and the    *)
(* AxiomaticSelfHealer built on top of it (monitor_and_heal,               *)
(* heal_violations, apply_strategy, get_statistics).                       *)
(*                                                                         *)
(* Representation.                                                         *)
(*  - A Rust String is a sequence of one-character strings, so that        *)
(*    contains / replace / format! are computed character by character.    *)
(*  - An f64 is a record [kind, val]: kind "fin" with val the value in     *)
(*    thousandths (1.0 is 1000), kind "inf" with val the sign, or kind     *)
(*    "nan".  Arithmetic on finite values is exact; the values used are    *)
(*    multiples of 0.001, binary rounding is not modelled.                 *)
(***************************************************************************)
EXTENDS Integers, Sequences, FiniteSets, TLC

(***************************************************************************)
(* Bounds of the model.                                                    *)
(***************************************************************************)
\* number of threads that each issue one update_weights call
NumThreads == 2
\* number of monitor_and_heal invocations made on the healer
MaxCalls == 2
\* number of direct record_violation calls made on the regularizer
MaxDirect == 1
MaxSeqLen == 2

(***************************************************************************)
(* enum Axiom, enum Severity, enum CorrectionStrategy                      *)
(***************************************************************************)
Axiom == {"Consistency", "Completeness", "Transparency", "Safety", "Fairness"}

Severity == {"Low", "Medium", "High", "Critical"}

CorrectionStrategy ==
    {"Rollback", "Recompute", "Interpolate", "QueryUser", "ApplyDefault"}

(***************************************************************************)
(* f64                                                                     *)
(***************************************************************************)
Fin(n) == [kind |-> "fin", val |-> n]

NaN == [kind |-> "nan", val |-> 0]

PosInf == [kind |-> "inf", val |-> 1]

NegInf == [kind |-> "inf", val |-> -1]

Sign(n) == IF n < 0 THEN -1 ELSE IF n > 0 THEN 1 ELSE 0

\* a * b on f64
f64_mul(a, b) ==
    IF a.kind = "nan" \/ b.kind = "nan" THEN NaN
    ELSE IF a.kind = "inf" \/ b.kind = "inf"
         THEN IF Sign(a.val) * Sign(b.val) = 0 THEN NaN
              ELSE [kind |-> "inf", val |-> Sign(a.val) * Sign(b.val)]
         ELSE Fin((a.val * b.val) \div 1000)

\* a + b on f64
f64_add(a, b) ==
    IF a.kind = "nan" \/ b.kind = "nan" THEN NaN
    ELSE IF a.kind = "inf" /\ b.kind = "inf"
         THEN IF a.val = b.val THEN a ELSE NaN
         ELSE IF a.kind = "inf" THEN a
         ELSE IF b.kind = "inf" THEN b
         ELSE Fin(a.val + b.val)

\* a > b on f64 (false when either side is NaN)
f64_gt(a, b) ==
    IF a.kind = "nan" \/ b.kind = "nan" THEN FALSE
    ELSE IF a.kind = "inf" THEN a.val = 1 /\ ~(b.kind = "inf" /\ b.val = 1)
    ELSE IF b.kind = "inf" THEN b.val = -1
    ELSE a.val > b.val

\* f64::max: the larger value, and the other argument when one is NaN
f64_max(a, b) ==
    IF a.kind = "nan" THEN b
    ELSE IF b.kind = "nan" THEN a
    ELSE IF f64_gt(b, a) THEN b ELSE a

\* f64::min: the smaller value, and the other argument when one is NaN
f64_min(a, b) ==
    IF a.kind = "nan" THEN b
    ELSE IF b.kind = "nan" THEN a
    ELSE IF f64_gt(a, b) THEN b ELSE a

(***************************************************************************)
(* String                                                                  *)
(***************************************************************************)
TRIGGER_INCONSISTENT == <<"i","n","c","o","n","s","i","s","t","e","n","t">>

TRIGGER_UNSAFE == <<"u","n","s","a","f","e">>

REPLACEMENT_CONSISTENT == <<"c","o","n","s","i","s","t","e","n","t">>

MARK_ROLLED_BACK == <<"[","R","O","L","L","E","D","_","B","A","C","K","]"," ">>

MARK_INTERPOLATED == <<" ","[","I","N","T","E","R","P","O","L","A","T","E","D","]">>

MARK_DEFAULT_APPLIED ==
    <<" ","[","D","E","F","A","U","L","T","_","A","P","P","L","I","E","D","]">>

ERR_USER_INTERVENTION ==
    <<"U","s","e","r"," ","i","n","t","e","r","v","e","n","t","i","o","n"," ",
      "r","e","q","u","i","r","e","d">>

\* s starts with p
starts_with(s, p) == Len(s) >= Len(p) /\ SubSeq(s, 1, Len(p)) = p

\* the lower-case form of a character
to_lower(c) ==
    CASE c = "U" -> "u" [] c = "N" -> "n" [] c = "S" -> "s" [] c = "A" -> "a"
      [] c = "F" -> "f" [] c = "E" -> "e" [] OTHER -> c

\* a contains that ignores case
contains_ignore_case(s, pat) ==
    LET low == [n \in 1..Len(s) |-> to_lower(s[n])] IN
    \E i \in 1..(Len(s) - Len(pat) + 1) : SubSeq(low, i, i + Len(pat) - 1) = pat

\* str::contains
contains(s, pat) ==
    \E i \in 1..(Len(s) - Len(pat) + 1) : SubSeq(s, i, i + Len(pat) - 1) = pat

\* str::replace: every non-overlapping match of from, left to right
RECURSIVE replace(_, _, _)
replace(s, from, to) ==
    IF s = <<>> THEN <<>>
    ELSE IF starts_with(s, from)
         THEN to \o replace(SubSeq(s, Len(from) + 1, Len(s)), from, to)
         ELSE <<Head(s)>> \o replace(Tail(s), from, to)

(***************************************************************************)
(* Result<String, String>                                                  *)
(***************************************************************************)
Ok(s) == [ok |-> TRUE, val |-> s]

Err(e) == [ok |-> FALSE, val |-> e]

(***************************************************************************)
(* Inputs                                                                  *)
(***************************************************************************)
CtxClean == <<"o","k">>

\* the Safety trigger in capitals: no rule matches it
CtxUpper == <<"U","N","S","A","F","E">>

CtxInconsistent ==
    <<"T","h","i","s"," ","i","s"," ","i","n","c","o","n","s","i","s","t","e","n","t">>

CtxUnsafe == <<"t","h","i","s"," ","i","s"," ","u","n","s","a","f","e">>

\* both triggers, the Safety one first in the text
CtxBoth ==
    <<"u","n","s","a","f","e",","," ","i","n","c","o","n","s","i","s","t","e","n","t">>

\* contexts handed to monitor_and_heal
Contexts == {<<>>, CtxUpper, CtxInconsistent, CtxUnsafe, CtxBoth}

\* feedback values handed to update_weights: -1000.0, -87.5, 0.0, 1000.0,
\* NaN and the two infinities
Feedbacks ==
    {Fin(-1000000), Fin(-87500), Fin(0), Fin(1000000), NaN, PosInf, NegInf}

\* axioms handed to update_weights
UpdAxioms == Axiom

\* violations handed directly to record_violation: one of an axiom and a
\* severity that no detection rule produces
SampleViolations ==
    { [axiom |-> "Fairness", severity |-> "Low", context |-> CtxClean,
       timestamp |-> 0] }

Threads == 1..NumThreads

\* violations handed to calculate_penalty by a caller of the regularizer: the
\* two kinds the rules produce and two kinds that no rule produces
PenaltyViolations ==
    { [axiom |-> "Consistency", severity |-> "High", context |-> CtxClean,
       timestamp |-> 0],
      [axiom |-> "Safety", severity |-> "Critical", context |-> CtxClean,
       timestamp |-> 0],
      [axiom |-> "Fairness", severity |-> "Low", context |-> CtxClean,
       timestamp |-> 0],
      [axiom |-> "Completeness", severity |-> "Medium", context |-> CtxClean,
       timestamp |-> 0] }

\* the slices handed to calculate_penalty
ViolationSeqs == UNION {[1..n -> PenaltyViolations] : n \in 0..MaxSeqLen}

\* the axioms and feedbacks of update_weights where the public functions are
\* called on the regularizer: the axioms of the two rules, and the feedbacks
\* that take a weight to its lower limit 0.1 and to its upper limit 10.0
ApiAxioms == {"Consistency", "Safety"}

ApiFeedbacks == {Fin(-1000000), Fin(1000000)}

(***************************************************************************)
(* State                                                                   *)
(***************************************************************************)
VARIABLES
    \* struct AdaptiveAxiomaticRegularizer
    axiom_weights,        \* HashMap<Axiom, f64>
    violation_history,    \* the Vec<Violation> behind Arc<Mutex<..>>
    poisoned,             \* the poison flag of that Mutex
    learning_rate,        \* f64
    threshold,            \* f64
    \* struct AxiomaticSelfHealer (built is FALSE until new has run)
    built,
    correction_strategies,\* HashMap<Axiom, Vec<CorrectionStrategy>>
    auto_heal,            \* bool
    \* callers
    upd_pc,               \* per thread: "idle" or "done" (its update_weights call)
    upd_args,             \* per thread: the arguments of its call
    directs,              \* number of direct record_violation calls so far
    calls,                \* number of monitor_and_heal invocations so far
    frame,                \* the running (or last) monitor_and_heal invocation
    stats,                \* the ViolationStatistics the caller got from its
                          \* last get_statistics, given up at its next
                          \* monitor_and_heal
    pure_call             \* the last call of detect_violations or
                          \* calculate_penalty made on the regularizer, with
                          \* its argument and the value returned, given up at
                          \* the next update_weights

vars == <<axiom_weights, violation_history, poisoned, learning_rate, threshold,
          built, correction_strategies, auto_heal, upd_pc, upd_args, directs,
          calls, frame, stats, pure_call>>

regularizer_vars ==
    <<axiom_weights, violation_history, poisoned, learning_rate, threshold>>

healer_vars == <<built, correction_strategies, auto_heal>>

NoArgs == [axiom |-> "none", feedback |-> Fin(0)]

\* no call of detect_violations or calculate_penalty has a result at hand
NoCall == [fn |-> "none", arg |-> <<>>, ret |-> <<>>]

\* no invocation of monitor_and_heal has been made.  Besides the locals of
\* monitor_and_heal and heal_violations the frame keeps, for the properties,
\* the apply_strategy calls made so far (attempts) and the history and the
\* weights found when the invocation was entered
IdleFrame ==
    [pc |-> "idle", context |-> <<>>, violations |-> <<>>, penalty |-> Fin(0),
     healed_context |-> <<>>, i |-> 1, j |-> 1, result |-> Ok(<<>>),
     attempts |-> <<>>, entry_history |-> <<>>, entry_weights |-> <<>>]

\* the caller holds no ViolationStatistics
NoStatistics ==
    [total |-> -1, by_axiom |-> [a \in {} |-> 0], by_severity |-> [s \in {} |-> 0]]

\* ViolationStatistics::default()
DefaultStatistics ==
    [total |-> 0, by_axiom |-> [a \in {} |-> 0], by_severity |-> [s \in {} |-> 0]]

(***************************************************************************)
(* AdaptiveAxiomaticRegularizer                                            *)
(***************************************************************************)
\* the weights new() inserts
InitialWeights ==
    [a \in Axiom |-> IF a = "Safety" THEN Fin(1500) ELSE Fin(1000)]

current_timestamp == 0

\* the Violation a rule pushes
rule_violation(axiom, severity, context) ==
    [axiom |-> axiom, severity |-> severity, context |-> context,
     timestamp |-> current_timestamp]

\* variant: the second rule is only tried when the first one found nothing
detect_violations_short_circuit(context) ==
    IF contains(context, TRIGGER_INCONSISTENT)
    THEN <<rule_violation("Consistency", "High", context)>>
    ELSE IF contains(context, TRIGGER_UNSAFE)
         THEN <<rule_violation("Safety", "Critical", context)>>
         ELSE <<>>

detect_violations(context) ==
    (IF contains(context, TRIGGER_INCONSISTENT)
     THEN <<rule_violation("Consistency", "High", context)>> ELSE <<>>)
    \o
    (IF contains(context, TRIGGER_UNSAFE)
     THEN <<rule_violation("Safety", "Critical", context)>> ELSE <<>>)

\* variant: the multiplier grows by one per rank
severity_multiplier_linear(severity) ==
    CASE severity = "Low" -> Fin(1000)
      [] severity = "Medium" -> Fin(2000)
      [] severity = "High" -> Fin(3000)
      [] severity = "Critical" -> Fin(4000)

\* variant: Critical weighs as much as High
severity_multiplier_critical_as_high(severity) ==
    CASE severity = "Low" -> Fin(1000)
      [] severity = "Medium" -> Fin(2000)
      [] severity = "High" -> Fin(4000)
      [] severity = "Critical" -> Fin(4000)

severity_multiplier(severity) ==
    CASE severity = "Low" -> Fin(1000)
      [] severity = "Medium" -> Fin(2000)
      [] severity = "High" -> Fin(4000)
      [] severity = "Critical" -> Fin(8000)

\* self.axiom_weights.get(&axiom).unwrap_or(&1.0)
weight_of(axiom) ==
    IF axiom \in DOMAIN axiom_weights THEN axiom_weights[axiom] ELSE Fin(1000)

\* the term of one violation
violation_penalty(v) == f64_mul(weight_of(v.axiom), severity_multiplier(v.severity))

\* the sum of the terms, left to right from 0.0
RECURSIVE penalty_sum(_, _)
penalty_sum(violations, n) ==
    IF n = 0 THEN Fin(0)
    ELSE f64_add(penalty_sum(violations, n - 1), violation_penalty(violations[n]))

calculate_penalty(violations) == penalty_sum(violations, Len(violations))

\* a clamp by comparisons, which lets NaN through
clamp_weight_compare(w) ==
    IF f64_gt(Fin(100), w) THEN Fin(100)
    ELSE IF f64_gt(w, Fin(10000)) THEN Fin(10000) ELSE w

\* variant: only the upper limit is applied
clamp_weight_no_floor(w) == f64_min(w, Fin(10000))

\* weight.max(0.1).min(10.0)
clamp_weight(w) == f64_min(f64_max(w, Fin(100)), Fin(10000))

\* a weight read before the exclusive access, here at construction
read_weight_stale(axiom) ==
    IF axiom = "Safety" THEN Fin(1500) ELSE Fin(1000)

\* the weight update_weights reads
read_weight(axiom) == axiom_weights[axiom]

\* variant: the weight decays by one percent before the feedback is added
updated_weight_decay(w, feedback) ==
    clamp_weight(f64_add(f64_mul(w, Fin(990)), f64_mul(learning_rate, feedback)))

\* the new value of a weight: *weight += learning_rate * feedback, then the clamp
updated_weight(w, feedback) ==
    clamp_weight(f64_add(w, f64_mul(learning_rate, feedback)))

\* variant: the feedback on one axiom is applied to the weight of every axiom
update_weights_all(t, axiom, feedback) ==
    /\ ~built
    /\ upd_pc[t] = "idle"
    /\ axiom_weights' =
         [a \in DOMAIN axiom_weights |-> updated_weight(read_weight(a), feedback)]
    /\ upd_pc' = [upd_pc EXCEPT ![t] = "done"]
    /\ upd_args' = [upd_args EXCEPT ![t] = [axiom |-> axiom, feedback |-> feedback]]
    /\ pure_call' = NoCall
    /\ UNCHANGED <<violation_history, poisoned, learning_rate, threshold,
                   healer_vars, directs, calls, frame, stats>>

\* thread t calls update_weights(axiom, feedback): &mut self, so the whole
\* body runs with no other operation on the regularizer in between
update_weights(t, axiom, feedback) ==
    /\ ~built
    /\ upd_pc[t] = "idle"
    /\ axiom_weights' =
         IF axiom \in DOMAIN axiom_weights
         THEN [axiom_weights EXCEPT
                 ![axiom] = updated_weight(read_weight(axiom), feedback)]
         ELSE axiom_weights
    /\ upd_pc' = [upd_pc EXCEPT ![t] = "done"]
    /\ upd_args' = [upd_args EXCEPT ![t] = [axiom |-> axiom, feedback |-> feedback]]
    /\ pure_call' = NoCall
    /\ UNCHANGED <<violation_history, poisoned, learning_rate, threshold,
                   healer_vars, directs, calls, frame, stats>>

\* a record_violation on a history capped at two entries, the oldest dropped
recorded_capped(history, violation) ==
    IF poisoned THEN history
    ELSE IF Len(history) >= 2 THEN Append(Tail(history), violation)
    ELSE Append(history, violation)

\* a record_violation that skips a violation equal to one already recorded
recorded_dedup(history, violation) ==
    IF ~poisoned /\ \A k \in 1..Len(history) : history[k] # violation
    THEN Append(history, violation) ELSE history

\* the history after record_violation(violation): the push happens only when
\* the lock is acquired
recorded(history, violation) ==
    IF ~poisoned THEN Append(history, violation) ELSE history

\* a direct call of record_violation on the regularizer
record_violation(violation) ==
    /\ ~built
    /\ directs < MaxDirect
    /\ violation_history' = recorded(violation_history, violation)
    /\ directs' = directs + 1
    /\ UNCHANGED <<pure_call, axiom_weights, poisoned, learning_rate, threshold,
                   healer_vars, upd_pc, upd_args, calls, frame, stats>>

\* a caller of the regularizer calls detect_violations(context) and keeps the
\* Vec it returns
detect_violations_call(context) ==
    /\ ~built
    /\ pure_call' = [fn |-> "detect_violations", arg |-> context,
                     ret |-> detect_violations(context)]
    /\ UNCHANGED <<regularizer_vars, healer_vars, upd_pc, upd_args, directs,
                   calls, frame, stats>>

\* a caller of the regularizer calls calculate_penalty(violations) and keeps
\* the f64 it returns
calculate_penalty_call(violations) ==
    /\ ~built
    /\ pure_call' = [fn |-> "calculate_penalty", arg |-> violations,
                     ret |-> calculate_penalty(violations)]
    /\ UNCHANGED <<regularizer_vars, healer_vars, upd_pc, upd_args, directs,
                   calls, frame, stats>>

\* a direct call of record_violation whose history.push panics while the
\* guard is held (Vec::push panics when the new capacity exceeds isize::MAX
\* bytes): the unwinding drops the guard and poisons the mutex, the ledger
\* keeps its entries
record_violation_panic(violation) ==
    /\ ~built
    /\ ~poisoned
    /\ poisoned' = TRUE
    /\ UNCHANGED <<pure_call, axiom_weights, violation_history, learning_rate,
                   threshold, healer_vars, upd_pc, upd_args, directs, calls,
                   frame, stats>>

(***************************************************************************)
(* AxiomaticSelfHealer                                                     *)
(***************************************************************************)
\* a catalog that lists Recompute before Rollback for Consistency
strategies_recompute_first ==
    [a \in {"Consistency", "Safety", "Completeness"} |->
        CASE a = "Consistency" -> <<"Recompute", "Rollback">>
          [] a = "Safety" -> <<"Rollback", "QueryUser">>
          [] a = "Completeness" -> <<"Interpolate", "ApplyDefault">>]

\* the catalog new() inserts
default_strategies ==
    [a \in {"Consistency", "Safety", "Completeness"} |->
        CASE a = "Consistency" -> <<"Rollback", "Recompute">>
          [] a = "Safety" -> <<"Rollback", "QueryUser">>
          [] a = "Completeness" -> <<"Interpolate", "ApplyDefault">>]

\* AxiomaticSelfHealer::new(regularizer): the regularizer moves into the
\* healer, no caller holds it any more
new_healer ==
    /\ ~built
    /\ built' = TRUE
    /\ correction_strategies' = default_strategies
    /\ auto_heal' = TRUE
    /\ upd_pc' = [t \in Threads |-> "done"]
    /\ upd_args' = [t \in Threads |-> NoArgs]
    /\ pure_call' = NoCall
    /\ UNCHANGED <<regularizer_vars, directs, calls, frame, stats>>

\* variant: Rollback finds no checkpoint and fails
apply_strategy_rollback_fails(strategy, context, violation) ==
    CASE strategy = "Rollback" -> Err(ERR_USER_INTERVENTION)
      [] strategy = "Recompute" ->
           Ok(replace(context, TRIGGER_INCONSISTENT, REPLACEMENT_CONSISTENT))
      [] strategy = "Interpolate" -> Ok(context \o MARK_INTERPOLATED)
      [] strategy = "QueryUser" -> Err(ERR_USER_INTERVENTION)
      [] strategy = "ApplyDefault" -> Ok(context \o MARK_DEFAULT_APPLIED)

apply_strategy(strategy, context, violation) ==
    CASE strategy = "Rollback" -> Ok(MARK_ROLLED_BACK \o context)
      [] strategy = "Recompute" ->
           Ok(replace(context, TRIGGER_INCONSISTENT, REPLACEMENT_CONSISTENT))
      [] strategy = "Interpolate" -> Ok(context \o MARK_INTERPOLATED)
      [] strategy = "QueryUser" -> Err(ERR_USER_INTERVENTION)
      [] strategy = "ApplyDefault" -> Ok(context \o MARK_DEFAULT_APPLIED)

\* a branch condition that also heals at penalty = threshold
should_heal_ge(penalty) == ~f64_gt(threshold, penalty) /\ auto_heal

\* penalty > self.regularizer.threshold && self.auto_heal
should_heal(penalty) == f64_gt(penalty, threshold) /\ auto_heal

\* self.correction_strategies.get(&axiom), the empty list standing for None
strategies_of(axiom) ==
    IF axiom \in DOMAIN correction_strategies
    THEN correction_strategies[axiom] ELSE <<>>

\* a strategy applied to the context monitor_and_heal was given
strategy_input_original(f) == f.context

\* the context a strategy is applied to
strategy_input(f) == f.healed_context

\* a record-only branch that reports the tolerated violations as an error
record_only_result_err(f) == Err(f.context)

\* the value the record-only branch returns
record_only_result(f) == Ok(f.context)

\* the value heal_violations returns
heal_result(f) == Ok(f.healed_context)

\* the loops over the violations run from the last to the first
loop_violation_reversed(f) == f.violations[Len(f.violations) + 1 - f.i]

\* the violation the current turn of a loop over the violations is at
loop_violation(f) == f.violations[f.i]

\* no invocation is running: &mut self can be taken
healer_free == built /\ frame.pc \in {"idle", "done"}

\* monitor_and_heal(context) is entered
mh_call(context) ==
    /\ healer_free
    /\ calls < MaxCalls
    /\ calls' = calls + 1
    /\ frame' = [IdleFrame EXCEPT !.pc = "detect", !.context = context,
                                  !.entry_history = violation_history,
                                  !.entry_weights = axiom_weights]
    /\ stats' = NoStatistics
    /\ UNCHANGED <<pure_call, regularizer_vars, healer_vars, upd_pc, upd_args, directs>>

\* let violations = detect_violations(context); the early return when empty
mh_detect ==
    /\ frame.pc = "detect"
    /\ LET violations == detect_violations(frame.context) IN
         frame' = IF violations = <<>>
                  THEN [frame EXCEPT !.pc = "done", !.violations = violations,
                                     !.result = Ok(frame.context)]
                  ELSE [frame EXCEPT !.pc = "score", !.violations = violations]
    /\ UNCHANGED <<pure_call, regularizer_vars, healer_vars, upd_pc, upd_args, directs,
                   calls, stats>>

\* variant: the healing branch starts with the record of the first violation
mh_score_record_first ==
    /\ frame.pc = "score"
    /\ LET penalty == calculate_penalty(frame.violations) IN
         frame' = IF should_heal(penalty)
                  THEN [frame EXCEPT !.pc = "heal_record", !.penalty = penalty,
                                     !.healed_context = frame.context,
                                     !.i = 1, !.j = 1]
                  ELSE [frame EXCEPT !.pc = "record_only", !.penalty = penalty,
                                     !.i = 1]
    /\ UNCHANGED <<pure_call, regularizer_vars, healer_vars, upd_pc, upd_args, directs,
                   calls, stats>>

\* let penalty = calculate_penalty(&violations); the branch on it
mh_score ==
    /\ frame.pc = "score"
    /\ LET penalty == calculate_penalty(frame.violations) IN
         frame' = IF should_heal(penalty)
                  THEN [frame EXCEPT !.pc = "heal", !.penalty = penalty,
                                     !.healed_context = frame.context,
                                     !.i = 1, !.j = 1]
                  ELSE [frame EXCEPT !.pc = "record_only", !.penalty = penalty,
                                     !.i = 1]
    /\ UNCHANGED <<pure_call, regularizer_vars, healer_vars, upd_pc, upd_args, directs,
                   calls, stats>>

\* one turn of the loop of the else branch: record_violation(v)
mh_record_only ==
    /\ frame.pc = "record_only"
    /\ frame.i <= Len(frame.violations)
    /\ violation_history' = recorded(violation_history, loop_violation(frame))
    /\ frame' = [frame EXCEPT !.i = frame.i + 1]
    /\ UNCHANGED <<pure_call, axiom_weights, poisoned, learning_rate, threshold,
                   healer_vars, upd_pc, upd_args, directs, calls, stats>>

\* Ok(context.to_string()) after that loop
mh_record_only_return ==
    /\ frame.pc = "record_only"
    /\ frame.i > Len(frame.violations)
    /\ frame' = [frame EXCEPT !.pc = "done", !.result = record_only_result(frame)]
    /\ UNCHANGED <<pure_call, regularizer_vars, healer_vars, upd_pc, upd_args, directs,
                   calls, stats>>

\* heal_violations, one turn of the inner loop for violation i: strategy j is
\* applied; Ok replaces healed_context and leaves the loop, Err goes on to
\* strategy j + 1; with no strategy left (or no list) the loop is over
heal_try ==
    /\ frame.pc = "heal"
    /\ frame.i <= Len(frame.violations)
    /\ LET violation == loop_violation(frame)
           strategies == strategies_of(violation.axiom)
       IN  IF frame.j > Len(strategies)
           THEN frame' = [frame EXCEPT !.pc = "heal_record"]
           ELSE LET strategy == strategies[frame.j]
                    outcome == apply_strategy(strategy, strategy_input(frame),
                                              violation)
                    attempts == Append(frame.attempts,
                                       [i |-> frame.i, strategy |-> strategy,
                                        input |-> strategy_input(frame),
                                        ok |-> outcome.ok])
                IN  frame' = IF outcome.ok
                             THEN [frame EXCEPT !.pc = "heal_record",
                                                !.healed_context = outcome.val,
                                                !.attempts = attempts]
                             ELSE [frame EXCEPT !.j = frame.j + 1,
                                                !.attempts = attempts]
    /\ UNCHANGED <<pure_call, regularizer_vars, healer_vars, upd_pc, upd_args, directs,
                   calls, stats>>

\* heal_violations, the end of the turn for violation i:
\* record_violation(violation.clone())
heal_record ==
    /\ frame.pc = "heal_record"
    /\ violation_history' = recorded(violation_history, loop_violation(frame))
    /\ frame' = [frame EXCEPT !.pc = "heal", !.i = frame.i + 1, !.j = 1]
    /\ UNCHANGED <<pure_call, axiom_weights, poisoned, learning_rate, threshold,
                   healer_vars, upd_pc, upd_args, directs, calls, stats>>

\* Ok(healed_context) after the loop over the violations
heal_return ==
    /\ frame.pc = "heal"
    /\ frame.i > Len(frame.violations)
    /\ frame' = [frame EXCEPT !.pc = "done", !.result = heal_result(frame)]
    /\ UNCHANGED <<pure_call, regularizer_vars, healer_vars, upd_pc, upd_args, directs,
                   calls, stats>>

\* the counter of a key after the loop over history
count_axiom(history, a) ==
    Cardinality({k \in 1..Len(history) : history[k].axiom = a})

count_severity(history, s) ==
    Cardinality({k \in 1..Len(history) : history[k].severity = s})

\* variant: the total is read after one more append than the counting loop saw
statistics_of_torn(history) ==
    LET seen == SubSeq(history, 1, Len(history) - 1)
        axioms == {seen[k].axiom : k \in 1..Len(seen)}
        severities == {seen[k].severity : k \in 1..Len(seen)}
    IN  [total |-> Len(history),
         by_axiom |-> [a \in axioms |-> count_axiom(seen, a)],
         by_severity |-> [s \in severities |-> count_severity(seen, s)]]

\* the ViolationStatistics built from the locked history
statistics_of(history) ==
    LET axioms == {history[k].axiom : k \in 1..Len(history)}
        severities == {history[k].severity : k \in 1..Len(history)}
    IN  [total |-> Len(history),
         by_axiom |-> [a \in axioms |-> count_axiom(history, a)],
         by_severity |-> [s \in severities |-> count_severity(history, s)]]

\* variant: the guard of a poisoned mutex is recovered and counted
get_statistics_ignore_poison ==
    /\ healer_free
    /\ stats' = statistics_of(violation_history)
    /\ UNCHANGED <<pure_call, regularizer_vars, healer_vars, upd_pc, upd_args, directs,
                   calls, frame>>

\* get_statistics(&self): the whole body runs under the lock
get_statistics ==
    /\ healer_free
    /\ stats' = IF ~poisoned THEN statistics_of(violation_history)
                ELSE DefaultStatistics
    /\ UNCHANGED <<pure_call, regularizer_vars, healer_vars, upd_pc, upd_args, directs,
                   calls, frame>>

(***************************************************************************)
(* Specification                                                           *)
(***************************************************************************)
\* AdaptiveAxiomaticRegularizer::new(); no healer yet
Init ==
    /\ axiom_weights = InitialWeights
    /\ violation_history = <<>>
    /\ poisoned = FALSE
    /\ learning_rate = Fin(10)
    /\ threshold = Fin(500)
    /\ built = FALSE
    /\ correction_strategies = [a \in {} |-> <<>>]
    /\ auto_heal = FALSE
    /\ upd_pc = [t \in Threads |-> "idle"]
    /\ upd_args = [t \in Threads |-> NoArgs]
    /\ directs = 0
    /\ calls = 0
    /\ frame = IdleFrame
    /\ stats = NoStatistics
    /\ pure_call = NoCall

Next ==
    \/ \E t \in Threads, axiom \in UpdAxioms, feedback \in Feedbacks :
         update_weights(t, axiom, feedback)
    \/ \E violation \in SampleViolations : record_violation(violation)
    \/ new_healer
    \/ \E context \in Contexts : mh_call(context)
    \/ mh_detect
    \/ mh_score
    \/ mh_record_only
    \/ mh_record_only_return
    \/ heal_try
    \/ heal_record
    \/ heal_return
    \/ get_statistics

Spec == Init /\ [][Next]_vars

\* The steps of a running monitor_and_heal invocation.  The body is
\* synchronous code with no blocking call, and the lock it takes is free (no
\* other operation on the healer runs during a &mut self call), so the thread
\* that runs it takes each next step.
Invocation ==
    \/ mh_detect
    \/ mh_score
    \/ mh_record_only
    \/ mh_record_only_return
    \/ heal_try
    \/ heal_record
    \/ heal_return

\* The executions of the healer with a Consistency weight that may be lowered
\* to its floor before the healer is built, so that both branches of
\* monitor_and_heal are taken.
NextLive ==
    \/ \E t \in Threads : update_weights(t, "Consistency", Fin(-1000000))
    \/ \E violation \in SampleViolations : record_violation(violation)
    \/ new_healer
    \/ \E context \in Contexts : mh_call(context)
    \/ mh_detect
    \/ mh_score
    \/ mh_record_only
    \/ mh_record_only_return
    \/ heal_try
    \/ heal_record
    \/ heal_return
    \/ get_statistics

SpecLive == Init /\ [][NextLive]_vars /\ WF_vars(Invocation)

\* The executions in which a push may panic under the guard.  One weight can
\* be lowered to its floor before the healer is built, so that both branches
\* of monitor_and_heal are taken.
NextPoison ==
    \/ \E t \in Threads : update_weights(t, "Consistency", Fin(-1000000))
    \/ \E violation \in SampleViolations : record_violation(violation)
    \/ \E violation \in SampleViolations : record_violation_panic(violation)
    \/ new_healer
    \/ \E context \in Contexts : mh_call(context)
    \/ mh_detect
    \/ mh_score
    \/ mh_record_only
    \/ mh_record_only_return
    \/ heal_try
    \/ heal_record
    \/ heal_return
    \/ get_statistics

SpecPoison == Init /\ [][NextPoison]_vars

\* The executions in which the callers of the regularizer also call its
\* functions detect_violations and calculate_penalty.
NextApi ==
    \/ \E t \in Threads, axiom \in ApiAxioms, feedback \in ApiFeedbacks :
         update_weights(t, axiom, feedback)
    \/ \E violation \in SampleViolations : record_violation(violation)
    \/ \E context \in Contexts : detect_violations_call(context)
    \/ \E violations \in ViolationSeqs : calculate_penalty_call(violations)
    \/ new_healer
    \/ \E context \in Contexts : mh_call(context)
    \/ mh_detect
    \/ mh_score
    \/ mh_record_only
    \/ mh_record_only_return
    \/ heal_try
    \/ heal_record
    \/ heal_return
    \/ get_statistics

SpecApi == Init /\ [][NextApi]_vars

(***************************************************************************)
(* Properties                                                              *)
(***************************************************************************)
\* the entries the running (or last) invocation has appended to the history
NewEntries ==
    SubSeq(violation_history, Len(frame.entry_history) + 1, Len(violation_history))

\* the invocation has returned
Returned == frame.pc = "done"

\* pat occurs in s: some position of s starts a copy of pat
OccursIn(pat, s) ==
    \E i \in 0..(Len(s) - Len(pat)) : \A k \in 1..Len(pat) : s[i + k] = pat[k]

\* the axioms whose rule the context triggers
Triggered(context) ==
    {a \in {"Consistency", "Safety"} :
        \/ a = "Consistency" /\ OccursIn(TRIGGER_INCONSISTENT, context)
        \/ a = "Safety" /\ OccursIn(TRIGGER_UNSAFE, context)}

\* the number of positions of seq that hold x
Occurrences(seq, x) == Cardinality({n \in 1..Len(seq) : seq[n] = x})

\* C1: a monitor_and_heal call that has detected k >= 1 violations has, when
\* it returns, made the ledger exactly k entries longer than it found it, and
\* the new entries hold each detected violation exactly as often as it was
\* detected (once), in the record-only branch as in the healing branch.
C1_EachViolationRecordedOnce ==
    (Returned /\ Len(frame.violations) >= 1) =>
        /\ Len(violation_history) =
             Len(frame.entry_history) + Cardinality(Triggered(frame.context))
        /\ Len(frame.violations) = Cardinality(Triggered(frame.context))
        /\ \A n \in 1..Len(frame.violations) :
             Occurrences(NewEntries, frame.violations[n]) = 1

\* a healing call on a context with both triggers has returned, made on a
\* ledger that already held the same two violations
C1_Witness ==
    /\ Returned
    /\ frame.context = CtxBoth
    /\ frame.attempts # <<>>
    /\ Len(frame.entry_history) = 2
    /\ frame.entry_history[1].context = CtxBoth

\* C2: a call on a context that no rule matches detects nothing and returns
\* Ok(context), with the ledger and the weight map as they were at its entry.
C2_NoMatchIsPassThrough ==
    (Returned /\ Triggered(frame.context) = {}) =>
        /\ frame.violations = <<>>
        /\ frame.result = Ok(frame.context)
        /\ violation_history = frame.entry_history
        /\ axiom_weights = frame.entry_weights

\* a call on "UNSAFE" has returned, made on a non-empty ledger and after a
\* weight was changed
C2_Witness ==
    /\ Returned
    /\ frame.context = CtxUpper
    /\ frame.entry_history # <<>>
    /\ frame.entry_weights # InitialWeights

\* "[ROLLED_BACK] This is inconsistent"
RolledBackInconsistent ==
    <<"[","R","O","L","L","E","D","_","B","A","C","K","]"," ",
      "T","h","i","s"," ","i","s"," ",
      "i","n","c","o","n","s","i","s","t","e","n","t">>

\* the healer is configured as new() builds it: threshold 0.5, auto-heal on,
\* the default catalog
DefaultConfiguration ==
    /\ built
    /\ threshold = Fin(500)
    /\ auto_heal
    /\ correction_strategies = default_strategies

\* C3, as claimed, in the setting of tests::test_self_healing (the weights
\* new() inserts, untouched): with the default configuration,
\* monitor_and_heal("This is inconsistent") returns success with a transformed
\* context that no longer contains "inconsistent", and the ledger has exactly
\* one new entry.
C3_HealedContextLosesTrigger ==
    (/\ Returned
     /\ frame.context = CtxInconsistent
     /\ DefaultConfiguration
     /\ axiom_weights = InitialWeights) =>
        /\ frame.result.ok
        /\ frame.result.val # frame.context
        /\ ~OccursIn(TRIGGER_INCONSISTENT, frame.result.val)
        /\ Len(NewEntries) = 1

\* C3, amended: with the default configuration and a Consistency weight above
\* 0.125 (the default 1.0 is), monitor_and_heal("This is inconsistent") returns
\* Ok("[ROLLED_BACK] This is inconsistent"): the context is transformed but
\* still contains "inconsistent"; the ledger has exactly one new entry, the
\* Consistency violation.
C3_HealedContextIsRolledBack ==
    (/\ Returned
     /\ frame.context = CtxInconsistent
     /\ DefaultConfiguration
     /\ axiom_weights["Consistency"].val > 125) =>
        /\ frame.result = Ok(RolledBackInconsistent)
        /\ frame.result.val # frame.context
        /\ OccursIn(TRIGGER_INCONSISTENT, frame.result.val)
        /\ Len(NewEntries) = 1
        /\ NewEntries[1].axiom = "Consistency"
        /\ NewEntries[1].context = CtxInconsistent

\* the call of tests::test_self_healing has returned: a fresh regularizer, a
\* healer built on it, monitor_and_heal("This is inconsistent")
C3_Witness ==
    /\ Returned
    /\ frame.context = CtxInconsistent
    /\ axiom_weights = InitialWeights
    /\ frame.entry_history = <<>>
    /\ frame.result.val = RolledBackInconsistent

\* the multiplier of a severity
Multiplier(severity) ==
    CASE severity = "Low" -> 1 [] severity = "Medium" -> 2
      [] severity = "High" -> 4 [] severity = "Critical" -> 8

\* the penalty of a sequence of violations in thousandths, under the weights
\* of the state
RECURSIVE PenaltyMilli(_)
PenaltyMilli(violations) ==
    IF violations = <<>> THEN 0
    ELSE axiom_weights[Head(violations).axiom].val
           * Multiplier(Head(violations).severity)
         + PenaltyMilli(Tail(violations))

\* the violations the rules find in a context, in the order of the rules
Detected(context) ==
    (IF OccursIn(TRIGGER_INCONSISTENT, context)
     THEN <<[axiom |-> "Consistency", severity |-> "High",
             context |-> context, timestamp |-> 0]>> ELSE <<>>)
    \o
    (IF OccursIn(TRIGGER_UNSAFE, context)
     THEN <<[axiom |-> "Safety", severity |-> "Critical",
             context |-> context, timestamp |-> 0]>> ELSE <<>>)

\* the invocation is in, or has been through, the healing branch
InHealing == frame.pc \in {"heal", "heal_record"} \/ frame.attempts # <<>>

\* C4: a call that detects at least one violation with a penalty <= threshold,
\* or with auto-heal off, records every detected violation, applies no
\* strategy and returns the original context; the healing branch is entered
\* only with penalty > threshold and auto-heal on.
C4_RecordOnlyAtOrBelowThreshold ==
    /\ (/\ Returned
        /\ Detected(frame.context) # <<>>
        /\ (PenaltyMilli(Detected(frame.context)) <= threshold.val \/ ~auto_heal))
       => /\ frame.result = Ok(frame.context)
          /\ frame.attempts = <<>>
          /\ violation_history = frame.entry_history \o Detected(frame.context)
    /\ InHealing =>
          /\ PenaltyMilli(Detected(frame.context)) > threshold.val
          /\ auto_heal

\* a call whose penalty equals the threshold (Consistency weight 0.125, one
\* High violation: 0.5) has returned through the record-only branch
C4_Witness ==
    /\ Returned
    /\ frame.violations # <<>>
    /\ PenaltyMilli(frame.violations) = 500
    /\ frame.attempts = <<>>
    /\ frame.result = Ok(frame.context)
    /\ Len(NewEntries) = 1

\* the context left by trying the strategies of a list in order on context:
\* the result of the first that succeeds, context itself when none does
RECURSIVE FirstSuccess(_, _, _)
FirstSuccess(strategies, context, violation) ==
    IF strategies = <<>> THEN context
    ELSE LET r == apply_strategy(Head(strategies), context, violation) IN
         IF r.ok THEN r.val
         ELSE FirstSuccess(Tail(strategies), context, violation)

\* the apply_strategy calls made for violation number i on context: the
\* strategies of the list in order, up to and including the first success
RECURSIVE AttemptsOn(_, _, _, _)
AttemptsOn(strategies, context, violation, i) ==
    IF strategies = <<>> THEN <<>>
    ELSE LET r == apply_strategy(Head(strategies), context, violation)
             a == [i |-> i, strategy |-> Head(strategies), input |-> context,
                   ok |-> r.ok]
         IN  IF r.ok THEN <<a>>
             ELSE <<a>> \o AttemptsOn(Tail(strategies), context, violation, i)

\* the working context after the first n violations have been through
RECURSIVE HealedAfter(_, _, _)
HealedAfter(violations, context, n) ==
    IF n = 0 THEN context
    ELSE FirstSuccess(strategies_of(violations[n].axiom),
                      HealedAfter(violations, context, n - 1), violations[n])

\* the apply_strategy calls made for the first n violations
RECURSIVE AttemptsAfter(_, _, _)
AttemptsAfter(violations, context, n) ==
    IF n = 0 THEN <<>>
    ELSE AttemptsAfter(violations, context, n - 1)
         \o AttemptsOn(strategies_of(violations[n].axiom),
                       HealedAfter(violations, context, n - 1), violations[n], n)

\* C5: in the healing branch the violations are taken in detection order; the
\* strategies of a violation's axiom are applied in list order to the working
\* context as the earlier violations left it; the first success replaces the
\* working context and ends the attempts for that violation; the violation is
\* recorded after its attempts, and the call returns the last working context.
C5_StrategiesInOrderOnWorkingContext ==
    /\ (frame.pc = "heal" /\ frame.j = 1) =>
          /\ frame.healed_context =
               HealedAfter(frame.violations, frame.context, frame.i - 1)
          /\ frame.attempts =
               AttemptsAfter(frame.violations, frame.context, frame.i - 1)
          /\ NewEntries = SubSeq(frame.violations, 1, frame.i - 1)
    /\ frame.pc = "heal_record" =>
          /\ frame.healed_context =
               HealedAfter(frame.violations, frame.context, frame.i)
          /\ frame.attempts =
               AttemptsAfter(frame.violations, frame.context, frame.i)
          /\ NewEntries = SubSeq(frame.violations, 1, frame.i - 1)
    /\ (Returned /\ frame.attempts # <<>>) =>
          /\ frame.result =
               Ok(HealedAfter(frame.violations, frame.context,
                              Len(frame.violations)))
          /\ frame.attempts =
               AttemptsAfter(frame.violations, frame.context,
                             Len(frame.violations))

\* a healing call on a context with both triggers has returned: the strategy
\* for the second violation was applied to the context the first had changed
C5_Witness ==
    /\ Returned
    /\ frame.context = CtxBoth
    /\ Len(frame.attempts) = 2
    /\ frame.attempts[1].input = CtxBoth
    /\ frame.attempts[2].input = MARK_ROLLED_BACK \o CtxBoth
    /\ frame.result.val = MARK_ROLLED_BACK \o MARK_ROLLED_BACK \o CtxBoth

\* C6: monitor_and_heal never returns an error: every invocation that returns,
\* returns Ok, with every detected violation recorded, whatever the context
\* and the weights.
C6_NeverReturnsError ==
    Returned =>
        /\ frame.result.ok
        /\ NewEntries = Detected(frame.context)

\* a healing call for a Safety violation, whose list ends with QueryUser, has
\* returned
C6_Witness ==
    /\ Returned
    /\ frame.context = CtxUnsafe
    /\ frame.attempts # <<>>
    /\ frame.result.ok
    /\ Len(NewEntries) = 1

\* C7: after construction and after any update_weights calls, with any
\* feedback (huge, infinite or NaN), every axiom has a weight, and it is a
\* number in [0.1, 10.0].
C7_WeightsWithinBounds ==
    \A a \in Axiom :
        /\ a \in DOMAIN axiom_weights
        /\ axiom_weights[a].kind = "fin"
        /\ axiom_weights[a].val >= 100
        /\ axiom_weights[a].val <= 10000

\* one weight is at 0.1, another at 10.0, and one of the updates made had
\* NaN as its feedback
C7_Witness ==
    /\ \E a \in Axiom : axiom_weights[a] = Fin(100)
    /\ \E a \in Axiom : axiom_weights[a] = Fin(10000)
    /\ \E t \in Threads : upd_pc[t] = "done" /\ upd_args[t].feedback = NaN

\* clamp(w + 0.01 * f, 0.1, 10.0) on thousandths
SerialStep(w, f) ==
    LET x == w + (10 * f) \div 1000 IN
    IF x < 100 THEN 100 ELSE IF x > 10000 THEN 10000 ELSE x

\* the weights that applying the updates of the threads of S one after
\* another, in any order, can leave, starting from w
RECURSIVE SerialOutcomes(_, _)
SerialOutcomes(w, S) ==
    IF S = {} THEN {w}
    ELSE UNION {SerialOutcomes(SerialStep(w, upd_args[t].feedback.val), S \ {t}) :
                  t \in S}

\* the threads whose update_weights call on axiom a has returned
UpdatersOf(a) == {t \in Threads : upd_pc[t] = "done" /\ upd_args[t].axiom = a}

\* C8: the weight of an axiom after the update_weights calls of N threads,
\* with finite feedback values, is what applying the N steps
\* w := clamp(w + learning_rate * f, 0.1, 10.0) one after another in some
\* order of the threads gives: no update is lost or torn.
C8_UpdatesSerialize ==
    ~built =>
        \A a \in Axiom :
            (\A t \in UpdatersOf(a) : upd_args[t].feedback.kind = "fin") =>
                /\ axiom_weights[a].kind = "fin"
                /\ axiom_weights[a].val \in
                     SerialOutcomes(InitialWeights[a].val, UpdatersOf(a))

\* every thread has updated Consistency with a finite feedback, one of them
\* with 1000.0 and one with -87.5, and the weight is 9.125: the clamp at 10.0
\* was applied between the two (the other order leaves 10.0)
C8_Witness ==
    /\ ~built
    /\ UpdatersOf("Consistency") = Threads
    /\ \E t \in Threads : upd_args[t].feedback = Fin(1000000)
    /\ \E t \in Threads : upd_args[t].feedback = Fin(-87500)
    /\ \A t \in Threads : upd_args[t].feedback.kind = "fin"
    /\ axiom_weights["Consistency"] = Fin(9125)

\* the step appends to the ledger: a direct record_violation, or the
\* record_violation of a loop of monitor_and_heal or heal_violations
IsRecordStep ==
    \/ directs' # directs
    \/ frame.pc = "record_only" /\ frame'.pc = "record_only"
    \/ frame.pc = "heal_record"

C10_InvocationOrderPreserved ==
    frame.pc # "idle" =>
        /\ Len(violation_history) >= Len(frame.entry_history)
        /\ SubSeq(violation_history, 1, Len(frame.entry_history))
             = frame.entry_history
        /\ Len(NewEntries) <= Len(Detected(frame.context))
        /\ NewEntries = SubSeq(Detected(frame.context), 1, Len(NewEntries))
        /\ Returned => NewEntries = Detected(frame.context)
        /\ \A p \in 1..Len(NewEntries) : \A q \in (p + 1)..Len(NewEntries) :
             ~(NewEntries[p].axiom = "Safety" /\ NewEntries[q].axiom = "Consistency")

\* the second invocation, on a context with both triggers (the Safety one
\* first in the text), has returned; the ledger already held an entry of the
\* first invocation
C10_Witness ==
    /\ Returned
    /\ calls = 2
    /\ frame.context = CtxBoth
    /\ frame.entry_history # <<>>
    /\ frame.entry_history[Len(frame.entry_history)].context = CtxUnsafe
    /\ Len(NewEntries) = 2
    /\ NewEntries[1].axiom = "Consistency"
    /\ NewEntries[2].axiom = "Safety"

(***************************************************************************)
(* C11                                                                     *)
(***************************************************************************)
\* the sum of the counters of a map of get_statistics
RECURSIVE SumCounts(_)
SumCounts(f) ==
    IF DOMAIN f = {} THEN 0
    ELSE LET k == CHOOSE x \in DOMAIN f : TRUE
         IN  f[k] + SumCounts([x \in DOMAIN f \ {k} |-> f[x]])

AxiomsOf(history) == [k \in 1..Len(history) |-> history[k].axiom]

SeveritiesOf(history) == [k \in 1..Len(history) |-> history[k].severity]

\* C11: the statistics a caller holds from get_statistics are a snapshot of
\* the ledger at one instant: total is the length of the ledger, the
\* per-axiom counters and the per-severity counters each sum to total, and
\* every counter is the number of ledger entries with that axiom or severity
\* (a key is present exactly when that number is positive).  The ledger
\* cannot change while the caller holds the statistics: they are given up at
\* the next monitor_and_heal.
C11_StatisticsAreSnapshot ==
    (stats # NoStatistics /\ ~poisoned) =>
        /\ stats.total = Len(violation_history)
        /\ SumCounts(stats.by_axiom) = stats.total
        /\ SumCounts(stats.by_severity) = stats.total
        /\ \A a \in Axiom :
              LET n == Occurrences(AxiomsOf(violation_history), a)
              IN  IF n = 0 THEN a \notin DOMAIN stats.by_axiom
                  ELSE a \in DOMAIN stats.by_axiom /\ stats.by_axiom[a] = n
        /\ \A sv \in Severity :
              LET n == Occurrences(SeveritiesOf(violation_history), sv)
              IN  IF n = 0 THEN sv \notin DOMAIN stats.by_severity
                  ELSE sv \in DOMAIN stats.by_severity /\ stats.by_severity[sv] = n

\* statistics over a ledger of four entries of three axioms and three
\* severities, one axiom met twice
C11_Witness ==
    /\ stats # NoStatistics
    /\ stats.total = 4
    /\ DOMAIN stats.by_axiom = {"Fairness", "Consistency", "Safety"}
    /\ DOMAIN stats.by_severity = {"Low", "High", "Critical"}
    /\ stats.by_axiom["Consistency"] = 2

(***************************************************************************)
(* C12                                                                     *)
(***************************************************************************)
\* C12: when the mutex of the ledger is poisoned, the statistics a caller
\* gets from get_statistics are the default ones: total 0 and no key in
\* by_axiom or in by_severity, whatever the ledger holds; the call returns
\* them as a value, not as an error.
C12_PoisonedLockGivesDefaultStatistics ==
    (poisoned /\ stats # NoStatistics) =>
        /\ stats.total = 0
        /\ DOMAIN stats.by_axiom = {}
        /\ DOMAIN stats.by_severity = {}

\* get_statistics has returned with the mutex poisoned and an entry in the
\* ledger
C12_Witness ==
    /\ poisoned
    /\ built
    /\ stats # NoStatistics
    /\ stats.total = 0
    /\ Len(violation_history) >= 1

(***************************************************************************)
(* C13                                                                     *)
(***************************************************************************)
\* C13: the value calculate_penalty returns for a sequence of violations is
\* the sum over the sequence of weight(axiom) * multiplier(severity), with
\* the multipliers Low 1, Medium 2, High 4, Critical 8 and the weights of the
\* state of the call; it is 0 for the empty sequence and 12.0 for a single
\* Safety/Critical violation under the weights of the construction.
C13_PenaltyIsWeightedSum ==
    pure_call.fn = "calculate_penalty" =>
        /\ pure_call.ret = [kind |-> "fin", val |-> PenaltyMilli(pure_call.arg)]
        /\ pure_call.arg = <<>> => pure_call.ret.val = 0
        /\ ( /\ Len(pure_call.arg) = 1
             /\ pure_call.arg[1].axiom = "Safety"
             /\ pure_call.arg[1].severity = "Critical"
             /\ axiom_weights["Safety"].val = 1500 )
           => pure_call.ret.val = 12000

\* the penalty of a Medium and a Critical violation under a raised Safety
\* weight: 1.0 * 2 + 10.0 * 8
C13_Witness ==
    /\ pure_call.fn = "calculate_penalty"
    /\ Len(pure_call.arg) = 2
    /\ pure_call.arg[1].severity = "Medium"
    /\ pure_call.arg[2].severity = "Critical"
    /\ axiom_weights["Safety"].val = 10000
    /\ pure_call.ret.val = 82000

(***************************************************************************)
(* C14                                                                     *)
(***************************************************************************)
\* the rank of a severity
Rank(severity) ==
    CASE severity = "Low" -> 1 [] severity = "Medium" -> 2
      [] severity = "High" -> 3 [] severity = "Critical" -> 4

\* C14: under the weights of any reachable state, the penalty
\* calculate_penalty has returned for a sequence is not above the penalty of
\* that sequence with one more violation appended, of any axiom and any
\* severity, and not above the penalty of that sequence with the severity of
\* one entry raised to a higher rank.
C14_PenaltyMonotone ==
    pure_call.fn = "calculate_penalty" =>
        LET violations == pure_call.arg
            p == pure_call.ret
        IN  /\ p.kind = "fin"
            /\ \A a \in Axiom, sv \in Severity :
                  LET more == calculate_penalty(Append(violations,
                                  [axiom |-> a, severity |-> sv,
                                   context |-> CtxClean, timestamp |-> 0]))
                  IN  more.kind = "fin" /\ more.val >= p.val
            /\ \A n \in 1..Len(violations), sv \in Severity :
                  Rank(sv) > Rank(violations[n].severity) =>
                    LET raised == calculate_penalty(
                                      [violations EXCEPT ![n].severity = sv])
                    IN  raised.kind = "fin" /\ raised.val >= p.val

\* a penalty returned with the weight of an axiom at the lower limit 0.1: a
\* violation of that axiom still adds to the Low one before it, 1.0 + 0.1 * 4
C14_Witness ==
    /\ pure_call.fn = "calculate_penalty"
    /\ Len(pure_call.arg) = 2
    /\ pure_call.arg[1].severity = "Low"
    /\ pure_call.arg[2].axiom = "Consistency"
    /\ axiom_weights["Consistency"].val = 100
    /\ pure_call.ret.val = 1400

(***************************************************************************)
(* C15                                                                     *)
(***************************************************************************)
\* C15: from every reachable state, a call update_weights(axiom, 0.0) leaves
\* the whole weight map as it found it, and so does every further such call.
C15_ZeroFeedbackKeepsWeight ==
    [][\A t \in Threads :
          ( /\ ~built'
            /\ upd_pc[t] = "idle"
            /\ upd_pc'[t] = "done"
            /\ upd_args'[t].feedback = [kind |-> "fin", val |-> 0] )
          => axiom_weights' = axiom_weights]_vars

\* two calls with feedback 0.0 on the same axiom have returned and its weight
\* is the one of the construction
C15_Witness ==
    /\ ~built
    /\ \A t \in {1, 2} :
          /\ upd_pc[t] = "done"
          /\ upd_args[t] = [axiom |-> "Safety", feedback |-> [kind |-> "fin", val |-> 0]]
    /\ axiom_weights["Safety"].val = 1500

(***************************************************************************)
(* C16                                                                     *)
(***************************************************************************)
\* C16: the Vec detect_violations returns for a context holds one
\* Consistency/High violation when only "inconsistent" occurs in the context,
\* one Safety/Critical violation when only "unsafe" occurs, and both, the
\* Consistency one first, when both occur; each violation carries the
\* context, and the Vec is the same whatever the weights and the ledger of
\* the state of the call are.
C16_RulesIndependent ==
    pure_call.fn = "detect_violations" =>
        LET context == pure_call.arg
            found == pure_call.ret
            inc == OccursIn(<<"i","n","c","o","n","s","i","s","t","e","n","t">>, context)
            uns == OccursIn(<<"u","n","s","a","f","e">>, context)
            kinds == [n \in 1..Len(found) |-> <<found[n].axiom, found[n].severity>>]
        IN  /\ (inc /\ ~uns) => kinds = << <<"Consistency", "High">> >>
            /\ (uns /\ ~inc) => kinds = << <<"Safety", "Critical">> >>
            /\ (inc /\ uns) => kinds = << <<"Consistency", "High">>,
                                          <<"Safety", "Critical">> >>
            /\ \A n \in 1..Len(found) : found[n].context = context
            /\ found = Detected(context)

\* both rules have fired on one context, in a state with a changed weight map
\* and an entry in the ledger
C16_Witness ==
    /\ pure_call.fn = "detect_violations"
    /\ pure_call.arg = CtxBoth
    /\ Len(pure_call.ret) = 2
    /\ axiom_weights # InitialWeights
    /\ violation_history # <<>>

(***************************************************************************)
(* C17                                                                     *)
(***************************************************************************)
\* a step of monitor_and_heal along one of its three paths
PathStep ==
    LET from == frame.pc
        to == frame'.pc
        n == Len(frame.violations)
    IN  \/ from \in {"idle", "done"} /\ to = "detect"
        \* Detect -> NoViolations -> Done
        \/ from = "detect" /\ to = "done" /\ frame'.violations = <<>>
        \* Detect -> Score
        \/ from = "detect" /\ to = "score" /\ frame'.violations # <<>>
        \* Score -> RecordOnly -> Done, one record per violation
        \/ from = "score" /\ to = "record_only" /\ frame'.i = 1
        \/ /\ from = "record_only" /\ to = "record_only"
           /\ frame.i <= n /\ frame'.i = frame.i + 1
           /\ Len(violation_history') = Len(violation_history) + 1
        \/ from = "record_only" /\ to = "done" /\ frame.i = n + 1
        \* Score -> Heal -> Done, TryStrategies then Record per violation
        \/ from = "score" /\ to = "heal" /\ frame'.i = 1
        \/ /\ from = "heal" /\ to = "heal"
           /\ frame.i <= n /\ frame'.i = frame.i
           /\ Len(frame'.attempts) = Len(frame.attempts) + 1
        \/ /\ from = "heal" /\ to = "heal_record"
           /\ frame.i <= n /\ frame'.i = frame.i
           /\ violation_history' = violation_history
        \/ /\ from = "heal_record" /\ to = "heal"
           /\ frame'.i = frame.i + 1
           /\ Len(violation_history') = Len(violation_history) + 1
           /\ \E k \in 1..Len(frame.attempts) : frame.attempts[k].i = frame.i
        \/ from = "heal" /\ to = "done" /\ frame.i = n + 1

\* C17: every monitor_and_heal call goes from Detect to Done along one of
\* the three paths (no violation; Score then one record per violation; Score
\* then, per violation, the strategies tried first and the record after) and
\* takes no other step, and every call that has been entered returns.
C17_EveryCallReturnsAlongAPath ==
    /\ [][frame' # frame => PathStep]_vars
    /\ (frame.pc \notin {"idle", "done"}) ~> (frame.pc = "done")

\* a call has returned along the healing path with two violations, each
\* tried once and then recorded
C17_Witness ==
    /\ Returned
    /\ calls = MaxCalls
    /\ Len(frame.violations) = 2
    /\ frame.i = 3
    /\ Len(frame.attempts) = 2
    /\ Len(violation_history) = Len(frame.entry_history) + 2

(***************************************************************************)
(* C18                                                                     *)
(***************************************************************************)
\* the step is a call of update_weights by thread t
IsUpdateStep(t) == built' = built /\ upd_pc[t] = "idle" /\ upd_pc'[t] = "done"

\* the step is AxiomaticSelfHealer::new
IsBuildStep == built' # built

\* C18: a call update_weights(a, f) changes at most the weight of a: the
\* weight of every other axiom, the set of axioms in the map and the ledger
\* are as before; and every step of monitor_and_heal, record_violation,
\* detect_violations, calculate_penalty and get_statistics leaves the weight
\* map, the threshold, the auto-heal flag and the strategy catalog as before.
C18_FrameConditions ==
    [][ /\ \A t \in Threads :
             IsUpdateStep(t) =>
                /\ \A b \in (DOMAIN axiom_weights) \ {upd_args'[t].axiom} :
                      axiom_weights'[b] = axiom_weights[b]
                /\ DOMAIN axiom_weights' = DOMAIN axiom_weights
                /\ violation_history' = violation_history
        /\ (~IsBuildStep /\ \A t \in Threads : ~IsUpdateStep(t)) =>
                /\ axiom_weights' = axiom_weights
                /\ threshold' = threshold
                /\ auto_heal' = auto_heal
                /\ correction_strategies' = correction_strategies ]_vars

\* the updates have changed the weight of Safety only, and with that map a
\* direct record_violation, a monitor_and_heal that recorded and a
\* get_statistics have run
C18_Witness ==
    /\ \A b \in Axiom : axiom_weights[b] # InitialWeights[b] <=> b = "Safety"
    /\ Returned
    /\ frame.entry_history # <<>>
    /\ Len(violation_history) > Len(frame.entry_history)
    /\ stats # NoStatistics

(***************************************************************************)
(* C19                                                                     *)
(***************************************************************************)
\* "[ROLLED_BACK] "
RolledBackMarker ==
    <<"[","R","O","L","L","E","D","_","B","A","C","K","]"," ">>

\* context behind k markers
RECURSIVE Prefixed(_, _)
Prefixed(k, context) ==
    IF k = 0 THEN context ELSE RolledBackMarker \o Prefixed(k - 1, context)

\* C19: with the catalog of the construction, a call that has gone through
\* the healing branch (violations detected, penalty above the threshold)
\* returns Ok of its context behind one "[ROLLED_BACK] " per detected
\* violation, two when both rules fired; and every strategy ever applied is
\* Rollback and succeeds, so that Recompute and QueryUser are never applied.
C19_HealingIsRollbackOnly ==
    /\ \A k \in 1..Len(frame.attempts) :
          /\ frame.attempts[k].strategy = "Rollback"
          /\ frame.attempts[k].ok
    /\ ( /\ Returned
         /\ Detected(frame.context) # <<>>
         /\ PenaltyMilli(Detected(frame.context)) > 500 )
       => /\ frame.result.ok
          /\ frame.result.val =
               Prefixed(Len(Detected(frame.context)), frame.context)
          /\ Len(frame.attempts) = Len(Detected(frame.context))

\* a healing pass over a context with both triggers has returned it behind
\* two markers
C19_Witness ==
    /\ Returned
    /\ frame.context = CtxBoth
    /\ frame.result.ok
    /\ frame.result.val = RolledBackMarker \o RolledBackMarker \o CtxBoth
    /\ \A k \in 1..Len(frame.attempts) : frame.attempts[k].strategy = "Rollback"
    /\ Len(frame.attempts) = 2

(***************************************************************************)
(* C20                                                                     *)
(***************************************************************************)
\* C20: with threshold 0.5 and auto-heal on, a call whose context contains
\* "unsafe" has, under every weight map the updates before the construction
\* of the healer can leave, a penalty of at least 0.8, never enters the
\* record-only branch and returns a healed context after at least one
\* strategy; a context that contains only "inconsistent" can take the
\* record-only branch (the call before the one of C20_Witness did).
C20_SafetyContextAlwaysHealed ==
    ( /\ threshold.val = 500
      /\ auto_heal
      /\ OccursIn(<<"u","n","s","a","f","e">>, frame.context)
      /\ frame.pc \notin {"idle", "detect", "score"} )
    => /\ PenaltyMilli(Detected(frame.context)) >= 800
       /\ frame.pc # "record_only"
       /\ Returned => /\ frame.attempts # <<>>
                       /\ frame.result.ok
                       /\ frame.result.val # frame.context

\* with the weights of Safety and Consistency both at the lower limit 0.1, a
\* call on "This is inconsistent" has returned its context unchanged
\* (penalty 0.4), and the next call, on "this is unsafe", has been healed with
\* penalty 0.8
C20_Witness ==
    /\ axiom_weights["Safety"].val = 100
    /\ axiom_weights["Consistency"].val = 100
    /\ Returned
    /\ frame.context = CtxUnsafe
    /\ frame.penalty.val = 800
    /\ frame.attempts # <<>>
    /\ frame.result.val # frame.context
    /\ Len(frame.entry_history) = 1
    /\ frame.entry_history[1].context = CtxInconsistent

=============================================================================
